---- MODULE Spec2Model ----
(***************************************************************************)
(* Model of the form state and draft-lifecycle controller of the           *)
(* accounting app (src/src/App.js, component AccountingApp).               *)
(*                                                                         *)
(* Text is modelled as a sequence of one-character strings, so that        *)
(* String.prototype.trim, JSON.stringify and JSON.parse are computed       *)
(* character by character.  Several controller instances (browser tabs)    *)
(* share one localStorage slot.                                            *)
(***************************************************************************)
EXTENDS Integers, Sequences, FiniteSets, TLC

(***************************************************************************)
(* Bounds of the model.                                                    *)
(***************************************************************************)
\* number of controller instances (tabs) sharing the storage key
NumCtl == 2
\* total number of update calls in one behaviour
MaxEdits == 1
\* total number of notifications emitted in one behaviour
MaxToasts == 2
\* total number of controller constructions (page loads) in one behaviour
MaxLoads == 3
\* length of the texts handed to toNumber in the runs of it alone
MaxLen == 3

Ctl == 1..NumCtl

(***************************************************************************)
(* Text helpers.                                                           *)
(***************************************************************************)
QUOTE == "\""
BACKSLASH == "\\"
Digits == {"0", "1", "2", "3", "4", "5", "6", "7", "8", "9"}

\* String.prototype.trim: drop the white space at both ends
RECURSIVE TrimStart(_)
TrimStart(s) ==
    IF s # <<>> /\ Head(s) = " " THEN TrimStart(Tail(s)) ELSE s

RECURSIVE TrimEnd(_)
TrimEnd(s) ==
    IF s # <<>> /\ s[Len(s)] = " " THEN TrimEnd(SubSeq(s, 1, Len(s) - 1)) ELSE s

Trim(s) == TrimEnd(TrimStart(s))

(***************************************************************************)
(* Values of the program.  A field value is a string or, when it comes     *)
(* from a foreign draft, a number (kept as its digits); a key that is not  *)
(* in the object reads as undefined.  An object is the ordered list of its *)
(* own properties.                                                         *)
(***************************************************************************)
Str(s) == [t |-> "str", s |-> s]
Num(s) == [t |-> "num", s |-> s]
Undefined == [t |-> "undef", s |-> <<>>]
Null == [t |-> "null", p |-> <<>>]
Obj(p) == [t |-> "obj", p |-> p]

\* the eight field names, in the order of the template
requiredKeys ==
    << "vendor", "date", "billRef", "description",
       "accountCode", "quantity", "amount", "taxes" >>

Keys == {requiredKeys[i] : i \in 1..Len(requiredKeys)}

\* the spelling of a property name, used by the serialisation
KeyChars(k) ==
    CASE k = "vendor" -> <<"v", "e", "n", "d", "o", "r">>
      [] k = "date" -> <<"d", "a", "t", "e">>
      [] k = "billRef" -> <<"b", "i", "l", "l", "R", "e", "f">>
      [] k = "description" ->
            <<"d", "e", "s", "c", "r", "i", "p", "t", "i", "o", "n">>
      [] k = "accountCode" ->
            <<"a", "c", "c", "o", "u", "n", "t", "C", "o", "d", "e">>
      [] k = "quantity" -> <<"q", "u", "a", "n", "t", "i", "t", "y">>
      [] k = "amount" -> <<"a", "m", "o", "u", "n", "t">>
      [] k = "taxes" -> <<"t", "a", "x", "e", "s">>

initialState ==
    Obj([i \in 1..Len(requiredKeys) |-> <<requiredKeys[i], Str(<<>>)>>])

\* property read  o[k]
HasKey(o, k) == \E i \in 1..Len(o.p) : o.p[i][1] = k

Get(o, k) ==
    IF HasKey(o, k)
    THEN o.p[CHOOSE i \in 1..Len(o.p) : o.p[i][1] = k][2]
    ELSE Undefined

\* { ...f, [k]: v } : an own key keeps its place, a new key goes last
SetKey(o, k, v) ==
    IF HasKey(o, k)
    THEN Obj([i \in 1..Len(o.p) |->
                IF o.p[i][1] = k THEN <<k, v>> ELSE o.p[i]])
    ELSE Obj(Append(o.p, <<k, v>>))

\* String(v)
ToStringJS(v) ==
    CASE v.t = "str" -> v.s
      [] v.t = "num" -> v.s
      [] v.t = "undef" -> <<"u", "n", "d", "e", "f", "i", "n", "e", "d">>

(***************************************************************************)
(* JSON.stringify of a form object.                                        *)
(***************************************************************************)
\* variant of EscapeChars: nothing is escaped
EscapeCharsNone(s) == s

RECURSIVE EscapeChars(_)
EscapeChars(s) ==
    IF s = <<>> THEN <<>>
    ELSE IF Head(s) = QUOTE \/ Head(s) = BACKSLASH
         THEN <<BACKSLASH, Head(s)>> \o EscapeChars(Tail(s))
         ELSE <<Head(s)>> \o EscapeChars(Tail(s))

QuoteJSON(s) == <<QUOTE>> \o EscapeChars(s) \o <<QUOTE>>

ValueJSON(v) == IF v.t = "str" THEN QuoteJSON(v.s) ELSE v.s

RECURSIVE MembersJSON(_)
MembersJSON(p) ==
    IF p = <<>> THEN <<>>
    ELSE QuoteJSON(KeyChars(Head(p)[1])) \o <<":">> \o ValueJSON(Head(p)[2])
         \o (IF Tail(p) = <<>> THEN <<>> ELSE <<",">> \o MembersJSON(Tail(p)))

JSONstringify(o) ==
    IF o.t = "null" THEN <<"n", "u", "l", "l">>
    ELSE <<"{">> \o MembersJSON(o.p) \o <<"}">>

(***************************************************************************)
(* JSON.parse, for the JSON texts of the model: null, and an object whose  *)
(* members are strings or non-negative integers, without white space.      *)
(* A result with ok = FALSE is a thrown SyntaxError.                       *)
(***************************************************************************)
Fail == [ok |-> FALSE, val |-> <<>>, pos |-> 0]

CharAt(t, i) == IF i >= 1 /\ i <= Len(t) THEN t[i] ELSE "EOF"

\* the characters of a string literal whose opening quote is before i
RECURSIVE ScanString(_, _, _)
ScanString(t, i, acc) ==
    IF i > Len(t) THEN Fail
    ELSE IF t[i] = QUOTE THEN [ok |-> TRUE, val |-> acc, pos |-> i + 1]
    ELSE IF t[i] = BACKSLASH
         THEN IF CharAt(t, i + 1) \in {QUOTE, BACKSLASH}
              THEN ScanString(t, i + 2, Append(acc, t[i + 1]))
              ELSE Fail
    ELSE ScanString(t, i + 1, Append(acc, t[i]))

RECURSIVE ScanDigits(_, _, _)
ScanDigits(t, i, acc) ==
    IF CharAt(t, i) \in Digits
    THEN ScanDigits(t, i + 1, Append(acc, t[i]))
    ELSE [ok |-> TRUE, val |-> acc, pos |-> i]

ParseNumber(t, i) ==
    IF CharAt(t, i) = "0"
    THEN IF CharAt(t, i + 1) \in Digits THEN Fail
         ELSE [ok |-> TRUE, val |-> <<"0">>, pos |-> i + 1]
    ELSE ScanDigits(t, i, <<>>)

ParseValue(t, i) ==
    IF CharAt(t, i) = QUOTE
    THEN LET r == ScanString(t, i + 1, <<>>)
         IN IF r.ok THEN [r EXCEPT !.val = Str(r.val)] ELSE Fail
    ELSE IF CharAt(t, i) \in Digits
    THEN LET r == ParseNumber(t, i)
         IN IF r.ok THEN [r EXCEPT !.val = Num(r.val)] ELSE Fail
    ELSE Fail

\* the property name spelled by a sequence of characters
KeyOf(s) ==
    IF \E k \in Keys : KeyChars(k) = s
    THEN CHOOSE k \in Keys : KeyChars(k) = s
    ELSE "other"

RECURSIVE ParseMembers(_, _, _)
ParseMembers(t, i, o) ==
    IF CharAt(t, i) # QUOTE THEN Fail
    ELSE LET k == ScanString(t, i + 1, <<>>)
         IN IF ~k.ok \/ CharAt(t, k.pos) # ":" THEN Fail
            ELSE LET v == ParseValue(t, k.pos + 1)
                 IN IF ~v.ok THEN Fail
                    ELSE LET o2 == SetKey(o, KeyOf(k.val), v.val)
                         IN IF CharAt(t, v.pos) = ","
                            THEN ParseMembers(t, v.pos + 1, o2)
                            ELSE IF CharAt(t, v.pos) = "}"
                                 THEN [ok |-> TRUE, val |-> o2,
                                       pos |-> v.pos + 1]
                                 ELSE Fail

JSONparse(t) ==
    IF t = <<"n", "u", "l", "l">> THEN [ok |-> TRUE, val |-> Null, pos |-> 5]
    ELSE IF CharAt(t, 1) # "{" THEN Fail
    ELSE LET r == IF CharAt(t, 2) = "}"
                  THEN [ok |-> TRUE, val |-> Obj(<<>>), pos |-> 3]
                  ELSE ParseMembers(t, 2, Obj(<<>>))
         IN IF r.ok /\ r.pos = Len(t) + 1 THEN r ELSE Fail

(***************************************************************************)
(* Numbers.  A number is an exact decimal m / 10^e with no trailing zero   *)
(* in its fraction; NaN is kept apart.  The texts of the model are short   *)
(* decimals, whose doubles print as these decimals do.                     *)
(***************************************************************************)
RECURSIVE Pow10(_)
Pow10(n) == IF n = 0 THEN 1 ELSE 10 * Pow10(n - 1)

RECURSIVE Normal(_)
Normal(x) ==
    IF x.e > 0 /\ x.m % 10 = 0
    THEN Normal([m |-> x.m \div 10, e |-> x.e - 1])
    ELSE x

Dec(m, e) == Normal([m |-> m, e |-> e])
Zero == Dec(0, 0)
NaN == [m |-> 0, e |-> -1]

Mul(x, y) == Dec(x.m * y.m, x.e + y.e)

Add(x, y) ==
    LET e == IF x.e > y.e THEN x.e ELSE y.e
    IN Dec(x.m * Pow10(e - x.e) + y.m * Pow10(e - y.e), e)

DigitValue(ch) ==
    CASE ch = "0" -> 0 [] ch = "1" -> 1 [] ch = "2" -> 2 [] ch = "3" -> 3
      [] ch = "4" -> 4 [] ch = "5" -> 5 [] ch = "6" -> 6 [] ch = "7" -> 7
      [] ch = "8" -> 8 [] ch = "9" -> 9

DigitChar(d) ==
    CASE d = 0 -> "0" [] d = 1 -> "1" [] d = 2 -> "2" [] d = 3 -> "3"
      [] d = 4 -> "4" [] d = 5 -> "5" [] d = 6 -> "6" [] d = 7 -> "7"
      [] d = 8 -> "8" [] d = 9 -> "9"

RECURSIVE DigitsValue(_)
DigitsValue(s) ==
    IF s = <<>> THEN 0
    ELSE 10 * DigitsValue(SubSeq(s, 1, Len(s) - 1)) + DigitValue(s[Len(s)])

AllDigits(s) == \A i \in 1..Len(s) : s[i] \in Digits

\* Number(text) for a text of digits, points and minus signs: an optional
\* sign, then digits with an optional point and fraction, or a point and
\* a fraction; the empty text is 0; anything else is NaN
NumberJS(s) ==
    IF s = <<>> THEN Zero
    ELSE LET neg == Head(s) = "-"
             u == IF neg THEN Tail(s) ELSE s
             dots == {i \in 1..Len(u) : u[i] = "."}
             p == IF dots = {} THEN Len(u) + 1
                  ELSE CHOOSE i \in dots : \A j \in dots : i <= j
             int == SubSeq(u, 1, p - 1)
             frac == SubSeq(u, p + 1, Len(u))
         IN IF AllDigits(int) /\ AllDigits(frac) /\ Len(int) + Len(frac) > 0
            THEN Dec((IF neg THEN -1 ELSE 1) * DigitsValue(int \o frac),
                     Len(frac))
            ELSE NaN

\* variant of StripNonNumeric: the decimal point is stripped too
StripNoPoint(s) ==
    SelectSeq(s, LAMBDA ch : ch \in Digits \cup {"-"})

\* replace(/[^0-9.\-]/g, "")
StripNonNumeric(s) ==
    SelectSeq(s, LAMBDA ch : ch \in Digits \cup {".", "-"})

\* toNumber(v)
toNumber(v) ==
    LET n == NumberJS(StripNonNumeric(ToStringJS(v)))
    IN IF n = NaN THEN Zero ELSE n

RECURSIVE NatChars(_)
NatChars(n) ==
    IF n < 10 THEN <<DigitChar(n)>>
    ELSE NatChars(n \div 10) \o <<DigitChar(n % 10)>>

\* x.toFixed(2): the sign of a negative x, then the nearest multiple of
\* 0.01 (the larger one of two) with two digits after the point
toFixed2(x) ==
    LET a == IF x.m < 0 THEN -x.m ELSE x.m
        n == IF x.e <= 2 THEN a * Pow10(2 - x.e)
             ELSE (2 * a + Pow10(x.e - 2)) \div (2 * Pow10(x.e - 2))
        d == NatChars(n)
        padded == IF Len(d) < 3
                  THEN [i \in 1..(3 - Len(d)) |-> "0"] \o d
                  ELSE d
    IN (IF x.m < 0 THEN <<"-">> ELSE <<>>)
       \o SubSeq(padded, 1, Len(padded) - 2) \o <<".">>
       \o SubSeq(padded, Len(padded) - 1, Len(padded))

\* the body of the useMemo of total
computeTotal(f) ==
    LET qty == toNumber(Get(f, "quantity"))
        amt == toNumber(Get(f, "amount"))
        tax == toNumber(Get(f, "taxes"))
    IN toFixed2(Add(Mul(qty, amt), tax))

(***************************************************************************)
(* The inputs of the model.                                                *)
(***************************************************************************)
\* texts typed into a field: white space only, and a non-blank text made of
\* the characters that JSON escapes
Values == { <<" ">>, <<BACKSLASH, QUOTE>> }

\* the edits made in the runs with several tabs
TabKeys == {"vendor"}
TabValues == { <<BACKSLASH, QUOTE>> }

\* the texts handed to toNumber in the runs of it alone: every text over
\* digits, point, minus sign and a letter up to MaxLen, and two longer ones
NumAlphabet == {"1", "2", ".", "-", "k"}

NumInputs ==
    UNION {[1..n -> NumAlphabet] : n \in 0..MaxLen}
    \cup { <<"a", "b", "c">>, <<"-", "1", "2", ".", "5", "k", "g">> }

\* the edits and the drafts of the runs about the total: the record of the
\* worked example (2 x 10.50 + 1.05), and edits of the three numeric fields
TotalKeys == {"quantity", "amount", "taxes"}
TotalValues == { <<"3">>, <<"0", ".", "5">>,
                 <<"-", "1", "2", ".", "5", "k", "g">> }

SampleRecord ==
    Obj(<< <<"vendor", Str(<<"a">>)>>, <<"date", Str(<<"a">>)>>,
           <<"billRef", Str(<<"a">>)>>, <<"description", Str(<<"a">>)>>,
           <<"accountCode", Str(<<"a">>)>>,
           <<"quantity", Str(<<"2">>)>>,
           <<"amount", Str(<<"1", "0", ".", "5", "0">>)>>,
           <<"taxes", Str(<<"1", ".", "0", "5">>)>> >>)

\* receipt files handed to setFile; NoFile is null
NoFile == "null"
Files == {"receipt.png"}

\* a complete record, as an earlier session saved it
FilledRecord ==
    Obj([i \in 1..Len(requiredKeys) |-> <<requiredKeys[i], Str(<<"a">>)>>])

Absent == [present |-> FALSE, text |-> <<>>]
Stored(t) == [present |-> TRUE, text |-> t]

\* what the storage slot may hold when the first controller starts: nothing,
\* a truncated text, a complete draft, a draft of another shape (a key
\* subset, a number as value), and the JSON text null
InitialSlots ==
    { Absent,
      Stored(<<"{", QUOTE, "v", "e", "n", "d", "o", "r">>),
      Stored(JSONstringify(FilledRecord)),
      Stored(JSONstringify(Obj(<< <<"vendor", Str(<<"a">>)>>,
                                  <<"quantity", Num(<<"2">>)>> >>))),
      Stored(JSONstringify(Null)) }

(***************************************************************************)
(* State.                                                                  *)
(***************************************************************************)
VARIABLES
    storage,       \* localStorage[STORAGE_KEY]
    status,        \* per controller: "unmounted", "mounted", "crashed"
    form,          \* per controller: useState form
    file,          \* per controller: useState file
    submitting,    \* per controller: useState submitting
    toast,         \* per controller: useState toast
    anim,          \* per controller: animation of the toast element
    toastTimers,   \* per controller: pending 2200 ms timers, oldest first
    submitTimers,  \* per controller: pending 800 ms timers
    nextId,        \* history: number of the next notification
    edits,         \* history: number of update calls so far
    loads,         \* history: number of controller constructions so far
    slotOrigin,    \* history: what wrote the storage slot last
    total,         \* per controller: the useMemo of total (deps and value)
    arg,           \* the text handed to toNumber in a run of it alone
    out            \* the number it returned

vars ==
    << storage, status, form, file, submitting, toast, anim, toastTimers,
       submitTimers, nextId, edits, loads, slotOrigin, total, arg, out >>

NoToast == [type |-> "none", message |-> "", id |-> 0]

RECURSIVE SumOver(_, _)
SumOver(f, S) ==
    IF S = {} THEN 0
    ELSE LET x == CHOOSE y \in S : TRUE IN f[x] + SumOver(f, S \ {x})

\* notifications still available: those emitted and those that pending
\* submissions will emit are counted against MaxToasts
FreeIds == MaxToasts - (nextId - 1) - SumOver(submitTimers, Ctl)

\* history after removeItem: the controllers that had a call in flight
\* when the draft that was removed had been saved
Cleared(o) ==
    [by |-> "clear", rec |-> Null,
     flight |-> IF o.by = "save" THEN o.flight ELSE {}]

\* nothing is memoized before the first render
NoTotal == [deps |-> <<>>, value |-> <<>>]

\* toNumber has not returned
NoResult == [m |-> 0, e |-> -2]

\* no controller is constructed yet
InitControllers ==
    /\ status = [c \in Ctl |-> "unmounted"]
    /\ form = [c \in Ctl |-> initialState]
    /\ file = [c \in Ctl |-> NoFile]
    /\ submitting = [c \in Ctl |-> FALSE]
    /\ toast = [c \in Ctl |-> NoToast]
    /\ anim = [c \in Ctl |-> "none"]
    /\ toastTimers = [c \in Ctl |-> <<>>]
    /\ submitTimers = [c \in Ctl |-> 0]
    /\ nextId = 1
    /\ edits = 0
    /\ loads = 0
    /\ slotOrigin = [by |-> "foreign", rec |-> Null, flight |-> {}]
    /\ total = [c \in Ctl |-> NoTotal]

Init ==
    /\ storage \in InitialSlots
    /\ InitControllers
    /\ arg = <<>>
    /\ out = NoResult

(***************************************************************************)
(* Operations.                                                             *)
(***************************************************************************)
\* variant of LoadDraft: a text that does not parse is not caught
LoadDraftNoCatch(slot) ==
    IF slot.present /\ slot.text # <<>>
    THEN LET r == JSONparse(slot.text)
         IN IF r.ok THEN r.val ELSE Null
    ELSE IF slot.present THEN Null ELSE initialState

\* localStorage.getItem and the useState initializer of form
LoadDraft(slot) ==
    IF slot.present /\ slot.text # <<>>
    THEN LET r == JSONparse(slot.text)
         IN IF r.ok THEN r.val ELSE initialState
    ELSE initialState

\* a controller is constructed (first load of the page, or a reload, which
\* drops the timers of the page it replaces); a null form makes the first
\* render throw on form.quantity
Initialize(c) ==
    /\ loads < MaxLoads
    /\ loads' = loads + 1
    /\ file' = [file EXCEPT ![c] = NoFile]
    /\ submitting' = [submitting EXCEPT ![c] = FALSE]
    /\ toast' = [toast EXCEPT ![c] = NoToast]
    /\ anim' = [anim EXCEPT ![c] = "none"]
    /\ toastTimers' = [toastTimers EXCEPT ![c] = <<>>]
    /\ submitTimers' = [submitTimers EXCEPT ![c] = 0]
    /\ LET draft == LoadDraft(storage)
       IN /\ form' = [form EXCEPT ![c] = draft]
          /\ status' = [status EXCEPT ![c] =
                          IF draft.t = "null" THEN "crashed" ELSE "mounted"]
    /\ UNCHANGED <<storage, nextId, edits, slotOrigin>>

\* variant of update: every edit is also written to the slot
updateAutosave(c, k, v) ==
    /\ status[c] = "mounted"
    /\ edits < MaxEdits
    /\ form' = [form EXCEPT ![c] = SetKey(form[c], k, Str(v))]
    /\ edits' = edits + 1
    /\ storage' = Stored(JSONstringify(SetKey(form[c], k, Str(v))))
    /\ slotOrigin' = [by |-> "save", rec |-> SetKey(form[c], k, Str(v)),
                      flight |-> {d \in Ctl : submitting[d]}]
    /\ UNCHANGED <<status, file, submitting, toast, anim,
                   toastTimers, submitTimers, nextId, loads>>

\* update(k)(e)
update(c, k, v) ==
    /\ status[c] = "mounted"
    /\ edits < MaxEdits
    /\ form' = [form EXCEPT ![c] = SetKey(form[c], k, Str(v))]
    /\ edits' = edits + 1
    /\ UNCHANGED <<storage, status, file, submitting, toast, anim,
                   toastTimers, submitTimers, nextId, loads, slotOrigin>>

\* setFile(f), from the Dropzone
setFile(c, f) ==
    /\ status[c] = "mounted"
    /\ file[c] # f
    /\ file' = [file EXCEPT ![c] = f]
    /\ UNCHANGED <<storage, status, form, submitting, toast, anim,
                   toastTimers, submitTimers, nextId, edits, loads, slotOrigin>>

\* variant of ShowToast: a toast that is showing is not replaced
ShowToastKeepOld(c, type, message) ==
    /\ toast' = [toast EXCEPT ![c] =
                    IF toast[c] = NoToast
                    THEN [type |-> type, message |-> message, id |-> nextId]
                    ELSE toast[c]]
    /\ anim' = [anim EXCEPT ![c] =
                    IF toast[c] = NoToast THEN "enter" ELSE anim[c]]
    /\ nextId' = nextId + 1

\* setToast({type, message}): the element is mounted and animates in only
\* when no toast was showing; a toast that replaces another one reuses the
\* element and starts no animation
ShowToast(c, type, message) ==
    /\ toast' = [toast EXCEPT ![c] =
                    [type |-> type, message |-> message, id |-> nextId]]
    /\ anim' = [anim EXCEPT ![c] =
                    IF toast[c] = NoToast THEN "enter" ELSE anim[c]]
    /\ nextId' = nextId + 1

\* variant of missing: the text is not trimmed
missingNoTrim(f) ==
    {k \in Keys : ToStringJS(Get(f, k)) = <<>>}

\* requiredKeys.filter((k) => !String(form[k]).trim())
missing(f) ==
    {k \in Keys : Trim(ToStringJS(Get(f, k))) = <<>>}

validate(f) == missing(f) = {}

\* variant of handleSave: a record that does not validate is not saved
handleSaveValidated(c) ==
    /\ status[c] = "mounted"
    /\ FreeIds >= 1
    /\ validate(form[c])
    /\ ShowToast(c, "success", "Draft saved locally.")
    /\ storage' = Stored(JSONstringify(form[c]))
    /\ slotOrigin' = [by |-> "save", rec |-> form[c],
                      flight |-> {d \in Ctl : submitting[d]}]
    /\ UNCHANGED <<status, form, file, submitting, toastTimers,
                   submitTimers, edits, loads>>

\* variant of handleSave: a draft that is in the slot is kept
handleSaveKeepExisting(c) ==
    /\ status[c] = "mounted"
    /\ FreeIds >= 1
    /\ ShowToast(c, "success", "Draft saved locally.")
    /\ storage' = IF storage.present THEN storage
                  ELSE Stored(JSONstringify(form[c]))
    /\ slotOrigin' = [by |-> "save", rec |-> form[c],
                      flight |-> {d \in Ctl : submitting[d]}]
    /\ UNCHANGED <<status, form, file, submitting, toastTimers,
                   submitTimers, edits, loads>>

handleSave(c) ==
    /\ status[c] = "mounted"
    /\ FreeIds >= 1
    /\ ShowToast(c, "success", "Draft saved locally.")
    /\ storage' = Stored(JSONstringify(form[c]))
    /\ slotOrigin' = [by |-> "save", rec |-> form[c],
                      flight |-> {d \in Ctl : submitting[d]}]
    /\ UNCHANGED <<status, form, file, submitting, toastTimers,
                   submitTimers, edits, loads>>

\* variant of handleSubmit: the draft is removed before the call is awaited
handleSubmitClearsEarly(c) ==
    /\ status[c] = "mounted"
    /\ ~submitting[c]
    /\ FreeIds >= 1
    /\ IF validate(form[c])
       THEN /\ submitting' = [submitting EXCEPT ![c] = TRUE]
            /\ submitTimers' = [submitTimers EXCEPT ![c] = @ + 1]
            /\ storage' = Absent
            /\ slotOrigin' = Cleared(slotOrigin)
            /\ UNCHANGED <<toast, anim, nextId>>
       ELSE /\ ShowToast(c, "error", "Please fill all required fields.")
            /\ UNCHANGED <<submitting, submitTimers, storage, slotOrigin>>
    /\ UNCHANGED <<status, form, file, toastTimers, edits, loads>>

\* variant of handleSubmit: the button stays enabled while submitting
handleSubmitNoGuard(c) ==
    /\ status[c] = "mounted"
    /\ FreeIds >= 1
    /\ IF validate(form[c])
       THEN /\ submitting' = [submitting EXCEPT ![c] = TRUE]
            /\ submitTimers' = [submitTimers EXCEPT ![c] = @ + 1]
            /\ UNCHANGED <<toast, anim, nextId>>
       ELSE /\ ShowToast(c, "error", "Please fill all required fields.")
            /\ UNCHANGED <<submitting, submitTimers>>
    /\ UNCHANGED <<storage, status, form, file, toastTimers, edits,
                   loads, slotOrigin>>

\* the submit handler up to its await; the button is disabled while
\* submitting
handleSubmit(c) ==
    /\ status[c] = "mounted"
    /\ ~submitting[c]
    /\ FreeIds >= 1
    /\ IF validate(form[c])
       THEN /\ submitting' = [submitting EXCEPT ![c] = TRUE]
            /\ submitTimers' = [submitTimers EXCEPT ![c] = @ + 1]
            /\ UNCHANGED <<toast, anim, nextId>>
       ELSE /\ ShowToast(c, "error", "Please fill all required fields.")
            /\ UNCHANGED <<submitting, submitTimers>>
    /\ UNCHANGED <<storage, status, form, file, toastTimers, edits,
                   loads, slotOrigin>>

\* variant of SubmitComplete: the form is reset to the template
SubmitCompleteResets(c) ==
    /\ submitTimers[c] > 0
    /\ submitTimers' = [submitTimers EXCEPT ![c] = @ - 1]
    /\ submitting' = [submitting EXCEPT ![c] = FALSE]
    /\ ShowToast(c, "success", "Expense submitted.")
    /\ storage' = Absent
    /\ toastTimers' = [toastTimers EXCEPT ![c] =
            IF submitTimers[c] = 1
            THEN [i \in 1..Len(@) |-> [@[i] EXCEPT !.held = FALSE]]
            ELSE @]
    /\ slotOrigin' = Cleared(slotOrigin)
    /\ form' = [form EXCEPT ![c] = initialState]
    /\ file' = [file EXCEPT ![c] = NoFile]
    /\ UNCHANGED <<status, edits, loads>>

\* variant of SubmitComplete: setSubmitting(false) is left out
SubmitCompleteStaysBusy(c) ==
    /\ submitTimers[c] > 0
    /\ submitTimers' = [submitTimers EXCEPT ![c] = @ - 1]
    /\ ShowToast(c, "success", "Expense submitted.")
    /\ storage' = Absent
    /\ toastTimers' = [toastTimers EXCEPT ![c] =
            IF submitTimers[c] = 1
            THEN [i \in 1..Len(@) |-> [@[i] EXCEPT !.held = FALSE]]
            ELSE @]
    /\ slotOrigin' = Cleared(slotOrigin)
    /\ UNCHANGED <<status, form, file, submitting, edits, loads>>

\* variant of SubmitComplete: a draft that was saved while this call was
\* in flight is kept
SubmitCompleteKeepsNewer(c) ==
    /\ submitTimers[c] > 0
    /\ submitTimers' = [submitTimers EXCEPT ![c] = @ - 1]
    /\ submitting' = [submitting EXCEPT ![c] = FALSE]
    /\ ShowToast(c, "success", "Expense submitted.")
    /\ IF slotOrigin.by = "save" /\ c \in slotOrigin.flight
       THEN UNCHANGED <<storage, slotOrigin>>
       ELSE /\ storage' = Absent
            /\ slotOrigin' = Cleared(slotOrigin)
    /\ toastTimers' = [toastTimers EXCEPT ![c] =
            IF submitTimers[c] = 1
            THEN [i \in 1..Len(@) |-> [@[i] EXCEPT !.held = FALSE]]
            ELSE @]
    /\ UNCHANGED <<status, form, file, edits, loads>>

\* the 800 ms timer fires and the handler runs to its end; a 2200 ms timer
\* started while this call was in flight is due later than the call
SubmitComplete(c) ==
    /\ submitTimers[c] > 0
    /\ submitTimers' = [submitTimers EXCEPT ![c] = @ - 1]
    /\ submitting' = [submitting EXCEPT ![c] = FALSE]
    /\ ShowToast(c, "success", "Expense submitted.")
    /\ storage' = Absent
    /\ toastTimers' = [toastTimers EXCEPT ![c] =
            IF submitTimers[c] = 1
            THEN [i \in 1..Len(@) |-> [@[i] EXCEPT !.held = FALSE]]
            ELSE @]
    /\ slotOrigin' = Cleared(slotOrigin)
    /\ UNCHANGED <<status, form, file, edits, loads>>

\* onAnimationComplete: the enter or the exit animation of the toast
\* element ends and the handler starts a 2200 ms timer
AnimationComplete(c) ==
    /\ anim[c] \in {"enter", "exit"}
    /\ toastTimers' = [toastTimers EXCEPT ![c] =
            Append(@, [tag |-> toast[c].id, held |-> submitTimers[c] > 0])]
    /\ anim' = [anim EXCEPT ![c] = "none"]
    /\ UNCHANGED <<storage, status, form, file, submitting, toast,
                   submitTimers, nextId, edits, loads, slotOrigin>>

\* the oldest 2200 ms timer fires: setToast(null); the element animates out
\* when a toast was showing
DismissTimer(c) ==
    /\ toastTimers[c] # <<>>
    /\ ~Head(toastTimers[c]).held
    /\ toastTimers' = [toastTimers EXCEPT ![c] = Tail(@)]
    /\ toast' = [toast EXCEPT ![c] = NoToast]
    /\ anim' = [anim EXCEPT ![c] =
                    IF toast[c] # NoToast THEN "exit" ELSE anim[c]]
    /\ UNCHANGED <<storage, status, form, file, submitting, submitTimers,
                   nextId, edits, loads, slotOrigin>>

\* variant of useMemo: taxes is left out of the dependencies
useMemoNoTaxes(prev, f) ==
    LET deps == <<Get(f, "quantity"), Get(f, "amount")>>
    IN IF prev.deps = deps THEN prev
       ELSE [deps |-> deps, value |-> computeTotal(f)]

\* useMemo(() => ..., [form.quantity, form.amount, form.taxes]): the value
\* of the last render is kept while the dependencies are the same
useMemo(prev, f) ==
    LET deps == <<Get(f, "quantity"), Get(f, "amount"), Get(f, "taxes")>>
    IN IF prev.deps = deps THEN prev
       ELSE [deps |-> deps, value |-> computeTotal(f)]

\* the render that follows a step of controller c; a controller that was
\* just constructed has nothing memoized
Render(c) ==
    total' = [total EXCEPT ![c] =
                IF status'[c] # "mounted" THEN NoTotal
                ELSE useMemo(IF loads' = loads THEN total[c] ELSE NoTotal,
                             form'[c])]

\* the steps of controller c, for edits of the keys K to the values V
Step(c, K, V) ==
    /\ \/ Initialize(c)
       \/ \E k \in K, v \in V : update(c, k, v)
       \/ \E f \in Files \cup {NoFile} : setFile(c, f)
       \/ handleSave(c)
       \/ handleSubmit(c)
       \/ SubmitComplete(c)
       \/ AnimationComplete(c)
       \/ DismissTimer(c)
    /\ Render(c)
    /\ UNCHANGED <<arg, out>>

\* one tab, which may be reloaded
Next == Step(1, Keys, Values)

Spec == Init /\ [][Next]_vars

\* several tabs on the same storage key
NextTabs == \E c \in Ctl : Step(c, TabKeys, TabValues)

SpecTabs == Init /\ [][NextTabs]_vars

\* the 800 ms timer of setTimeout(r, 800) fires in tab 1 and the handler
\* resumes after its await
TimerFires == SubmitComplete(1) /\ Render(1) /\ UNCHANGED <<arg, out>>

\* one tab, in which a timer that is set fires: the browser runs a timer
\* that is due unless the page is loaded again first
NextLive == Step(1, TabKeys, Values)

SpecLive == Init /\ [][NextLive]_vars /\ WF_vars(TimerFires)

\* one tab that starts from a draft with numbers, or from none, or from a
\* draft of another shape, and edits the numeric fields
InitTotal ==
    /\ storage \in { Stored(JSONstringify(SampleRecord)),
                     Absent,
                     Stored(JSONstringify(Obj(<< <<"vendor", Str(<<"a">>)>>,
                                                 <<"quantity", Num(<<"2">>)>> >>))) }
    /\ InitControllers
    /\ arg = <<>>
    /\ out = NoResult

NextTotal == Step(1, TotalKeys, TotalValues)

SpecTotal == InitTotal /\ [][NextTotal]_vars

\* toNumber alone, on one text
InitNum ==
    /\ storage = Absent
    /\ InitControllers
    /\ arg \in NumInputs
    /\ out = NoResult

CallToNumber ==
    /\ out = NoResult
    /\ out' = toNumber(Str(arg))
    /\ UNCHANGED <<storage, status, form, file, submitting, toast, anim,
                   toastTimers, submitTimers, nextId, edits, loads,
                   slotOrigin, total, arg>>

SpecNum == InitNum /\ [][CallToNumber]_vars

(***************************************************************************)
(* Properties.                                                             *)
(***************************************************************************)
\* a field that holds a text which is empty after trimming
Blank(f, k) == Get(f, k).t = "str" /\ Trim(Get(f, k).s) = <<>>

HasBlankField(f) == \E k \in Keys : Blank(f, k)

\* every field holds a text that is not empty after trimming
AllNonBlank(f) ==
    \A k \in Keys : Get(f, k).t = "str" /\ Trim(Get(f, k).s) # <<>>

\* C1: a submit of a record with a required field that is blank after
\* trimming leaves the storage slot as it was, does not enter the
\* submitting phase and starts no simulated remote call
C1_BlankSubmitNoEffect ==
    [][\A c \in Ctl :
        (handleSubmit(c) /\ HasBlankField(form[c])) =>
            /\ storage' = storage
            /\ ~submitting'[c]
            /\ submitTimers'[c] = submitTimers[c]]_vars

\* a submit was rejected for a record whose only blank field holds white
\* space, with a draft in the slot
C1_Witness ==
    /\ toast[1].message = "Please fill all required fields."
    /\ \E k \in Keys :
        /\ Get(form[1], k) = Str(<<" ">>)
        /\ \A j \in Keys \ {k} : ~Blank(form[1], j)
    /\ storage.present
    /\ ~submitting[1]

\* C2: an accepted submit starts exactly one simulated remote call and
\* leaves the slot alone; a call is started by no other step; the slot is
\* removed only by a step in which a call completes, and that step removes it
C2_SubmitOnceThenClear ==
    [][\A c \in Ctl :
        /\ (handleSubmit(c) /\ AllNonBlank(form[c])) =>
                /\ submitTimers'[c] = submitTimers[c] + 1
                /\ submitting'[c]
                /\ storage' = storage
        /\ submitTimers'[c] > submitTimers[c] =>
                /\ submitTimers[c] = 0
                /\ submitTimers'[c] = 1
                /\ handleSubmit(c)
        /\ (storage.present /\ ~storage'.present) =>
                \E d \in Ctl : submitTimers'[d] = submitTimers[d] - 1
        /\ SubmitComplete(c) =>
                /\ ~storage'.present
                /\ submitTimers'[c] = submitTimers[c] - 1]_vars

\* the call of a complete record has completed and removed the draft
C2_Witness ==
    /\ toast[1].message = "Expense submitted."
    /\ AllNonBlank(form[1])
    /\ slotOrigin.by = "clear"
    /\ ~storage.present
    /\ submitTimers[1] = 0

\* C3: a controller has at most one simulated remote call outstanding, and
\* has one exactly while it is submitting
C3_OneInFlight ==
    \A c \in Ctl :
        /\ submitTimers[c] <= 1
        /\ submitting[c] <=> submitTimers[c] = 1

\* a call is in flight and a save was made meanwhile
C3_Witness ==
    /\ submitting[1]
    /\ submitTimers[1] = 1
    /\ toast[1].message = "Draft saved locally."
    /\ edits = 1

\* C4: a controller constructed while the slot holds what a save wrote
\* starts with exactly the record that was saved, and with no attachment
C4_SaveInitializeRoundTrip ==
    [][\A c \in Ctl :
        (Initialize(c) /\ slotOrigin.by = "save") =>
            /\ form'[c] = slotOrigin.rec
            /\ \A k \in Keys : Get(form'[c], k) = Get(slotOrigin.rec, k)
            /\ file'[c] = NoFile]_vars

\* a record with an empty field and a field of escaped characters was
\* saved, and the page was loaded again
C4_Witness ==
    /\ loads = 2
    /\ status[1] = "mounted"
    /\ slotOrigin.by = "save"
    /\ form[1] = slotOrigin.rec
    /\ \E k \in Keys : Get(form[1], k) = Str(<<BACKSLASH, QUOTE>>)
    /\ \E k \in Keys : Get(form[1], k) = Str(<<>>)
    /\ file[1] = NoFile
    /\ toast[1] = NoToast
    /\ anim[1] = "none"
    /\ toastTimers[1] = <<>>

\* C5: the record of a constructed controller has all eight keys, each
\* with a string value
C5_AllKeysPresent ==
    \A c \in Ctl :
        status[c] # "unmounted" =>
            /\ form[c].t = "obj"
            /\ \A k \in Keys : HasKey(form[c], k) /\ Get(form[c], k).t = "str"

\* the slot is missing or holds a text that does not parse
Unreadable(slot) ==
    \/ ~slot.present
    \/ slot.text = <<>>
    \/ ~JSONparse(slot.text).ok

\* C6: a controller constructed from a missing or unparseable slot starts
\* with the empty template, no notification, not submitting, and leaves the
\* slot as it was
C6_InitializeFallsBack ==
    [][\A c \in Ctl :
        (Initialize(c) /\ Unreadable(storage)) =>
            /\ status'[c] = "mounted"
            /\ form'[c] = initialState
            /\ toast'[c] = NoToast
            /\ nextId' = nextId
            /\ ~submitting'[c]
            /\ submitTimers'[c] = 0
            /\ storage' = storage]_vars

\* a controller was constructed from a truncated text
C6_Witness ==
    /\ loads = 1
    /\ status[1] = "mounted"
    /\ storage.present
    /\ storage.text # <<>>
    /\ ~JSONparse(storage.text).ok
    /\ form[1] = initialState

\* C7: a notification that is showing is cleared only by the timer that
\* was started for it
C7_DismissedByOwnTimer ==
    [][\A c \in Ctl :
        (toast[c] # NoToast /\ toast'[c] = NoToast /\ loads' = loads) =>
            /\ toastTimers[c] # <<>>
            /\ Head(toastTimers[c]).tag = toast[c].id]_vars

\* C8: every emitted notification becomes the active one at once, with the
\* type and message of its event; the active notification changes only to
\* none or to a notification that was never shown before
C8_LatestNotificationOnly ==
    [][\A c \in Ctl :
        /\ toast'[c] # toast[c] =>
                \/ toast'[c] = NoToast
                \/ toast'[c].id = nextId /\ nextId' = nextId + 1
        /\ handleSave(c) =>
                toast'[c] = [type |-> "success",
                             message |-> "Draft saved locally.",
                             id |-> nextId]
        /\ (handleSubmit(c) /\ ~submitting'[c]) =>
                toast'[c] = [type |-> "error",
                             message |-> "Please fill all required fields.",
                             id |-> nextId]
        /\ SubmitComplete(c) =>
                toast'[c] = [type |-> "success",
                             message |-> "Expense submitted.",
                             id |-> nextId]]_vars

\* the second notification replaced the first while the timer of the first
\* was pending
C8_Witness ==
    /\ toast[1].id = 2
    /\ toastTimers[1] # <<>>
    /\ Head(toastTimers[1]).tag = 1

\* C9: save is possible whatever the record and the phase; it writes the
\* current record to the slot, shows "Draft saved locally." and leaves the
\* record, the attachment, the phase and the pending call unchanged
C9_SaveEffect ==
    /\ [](\A c \in Ctl :
            (status[c] = "mounted" /\ FreeIds >= 1) => ENABLED handleSave(c))
    /\ [][\A c \in Ctl :
            handleSave(c) =>
                /\ storage'.present
                /\ LET r == JSONparse(storage'.text)
                   IN r.ok /\ r.val = form[c]
                /\ toast'[c].type = "success"
                /\ toast'[c].message = "Draft saved locally."
                /\ form'[c] = form[c]
                /\ file'[c] = file[c]
                /\ submitting'[c] = submitting[c]
                /\ submitTimers'[c] = submitTimers[c]
                /\ status'[c] = status[c]]_vars

\* a record with a blank field was saved while a call was in flight
C9_Witness ==
    /\ submitting[1]
    /\ submitTimers[1] = 1
    /\ HasBlankField(form[1])
    /\ toast[1].message = "Draft saved locally."
    /\ storage = Stored(JSONstringify(form[1]))
    /\ slotOrigin.by = "save"
    /\ slotOrigin.rec = form[1]

\* C10: while the last write of the slot is a save, the slot holds that
\* save's record, and that record is what a construction would load
C10_LastWriteWins ==
    slotOrigin.by = "save" =>
        /\ storage.present
        /\ LET r == JSONparse(storage.text)
           IN r.ok /\ r.val = slotOrigin.rec
        /\ LoadDraft(storage) = slotOrigin.rec

\* two tabs saved different records, and the first tab was then loaded
\* again and shows the record of the second save
C10_Witness ==
    /\ loads = 3
    /\ toast[2].message = "Draft saved locally."
    /\ toast[2].id = 2
    /\ toast[1] = NoToast
    /\ Get(form[2], "vendor") = Str(<<BACKSLASH, QUOTE>>)
    /\ slotOrigin.by = "save"
    /\ slotOrigin.rec = form[2]
    /\ status[1] = "mounted"
    /\ form[1] = form[2]

\* C11: neither step of a submit (the handler up to its await, with
\* either outcome of the validation, and the completion of the call)
\* changes the record or the attachment; after a rejected submit the
\* controller is mounted and idle as before
C11_SubmitKeepsRecord ==
    [][\A c \in Ctl :
        /\ (handleSubmit(c) \/ SubmitComplete(c)) =>
                /\ form'[c] = form[c]
                /\ \A k \in Keys : Get(form'[c], k) = Get(form[c], k)
                /\ file'[c] = file[c]
        /\ (handleSubmit(c) /\ ~validate(form[c])) =>
                /\ status'[c] = "mounted"
                /\ ~submitting'[c]]_vars

\* the call of a complete record with an attachment has completed and the
\* record and the attachment are still there
C11_Witness ==
    /\ toast[1].message = "Expense submitted."
    /\ ~submitting[1]
    /\ form[1] = FilledRecord
    /\ file[1] = "receipt.png"
    /\ ~storage.present

\* the rule as stated: digits and points are kept, and a minus sign is
\* kept only when no kept character stands before it
RECURSIVE LeadingMinusStrip(_, _)
LeadingMinusStrip(s, kept) ==
    IF s = <<>> THEN kept
    ELSE IF Head(s) \in Digits \cup {"."} \/ (Head(s) = "-" /\ kept = <<>>)
         THEN LeadingMinusStrip(Tail(s), Append(kept, Head(s)))
         ELSE LeadingMinusStrip(Tail(s), kept)

LeadingMinusCoerce(s) ==
    LET n == NumberJS(LeadingMinusStrip(s, <<>>))
    IN IF n = NaN THEN Zero ELSE n

\* a minus sign stands after a digit, a point or another minus sign
StrayMinus(s) ==
    \E i, j \in 1..Len(s) :
        i < j /\ s[i] \in Digits \cup {".", "-"} /\ s[j] = "-"

\* C13 as stated: the result of toNumber is the decimal parse of the text
\* stripped of everything but digits, points and a leading minus sign, and
\* 0 when that parse fails
C13_LeadingMinusRule ==
    out # NoResult => out = LeadingMinusCoerce(arg)

\* C13, amended: toNumber returns a finite number for every text; every
\* minus sign is kept, so a text with a minus sign after a digit, a point
\* or a minus sign gives 0, and any other text gives what the stated rule
\* gives
C13_EveryMinusKept ==
    out # NoResult =>
        /\ out # NaN
        /\ out.e >= 0
        /\ StrayMinus(arg) => out = Zero
        /\ ~StrayMinus(arg) => out = LeadingMinusCoerce(arg)
        /\ arg = <<>> => out = Zero
        /\ arg = <<"a", "b", "c">> => out = Zero
        /\ arg = <<"-", "1", "2", ".", "5", "k", "g">> => out = Dec(-125, 1)
        /\ arg = <<"1", ".", "2">> => out = Dec(12, 1)

\* toNumber returned 0 for a text with a minus sign that is not leading
C13_Witness ==
    /\ arg = <<"1", "-", "2">>
    /\ out = Zero

\* C12: the total shown by a mounted controller is quantity x amount +
\* taxes of the current record, each through toNumber, with two decimals;
\* for 2, 10.50 and 1.05 it is 22.05
C12_TotalNeverStale ==
    \A c \in Ctl :
        status[c] = "mounted" =>
            LET qty == toNumber(Get(form[c], "quantity"))
                amt == toNumber(Get(form[c], "amount"))
                tax == toNumber(Get(form[c], "taxes"))
                shown == total[c].value
            IN /\ shown = toFixed2(Add(Mul(qty, amt), tax))
               /\ Len(shown) >= 4
               /\ shown[Len(shown) - 2] = "."
               /\ ( /\ Get(form[c], "quantity") = Str(<<"2">>)
                    /\ Get(form[c], "amount") = Str(<<"1", "0", ".", "5", "0">>)
                    /\ Get(form[c], "taxes") = Str(<<"1", ".", "0", "5">>) )
                    => shown = <<"2", "2", ".", "0", "5">>

\* the taxes of the worked example were edited to 0.5 and the total shown
\* is 21.50
C12_Witness ==
    /\ status[1] = "mounted"
    /\ edits = 1
    /\ Get(form[1], "quantity") = Str(<<"2">>)
    /\ Get(form[1], "amount") = Str(<<"1", "0", ".", "5", "0">>)
    /\ Get(form[1], "taxes") = Str(<<"0", ".", "5">>)
    /\ total[1].value = <<"2", "1", ".", "5", "0">>

\* C14: a controller starts submitting only in a submit step whose
\* validation passed, and a submit step either starts submitting without a
\* notification or stays idle with the error notification; a controller
\* stops submitting only in the step that completes the call (or when the
\* page is loaded again), and that same step shows "Expense submitted.",
\* empties the slot and leaves the controller idle; a controller that is
\* submitting is eventually idle again
C14_SubmissionPhases ==
    /\ [][\A c \in Ctl :
            /\ (~submitting[c] /\ submitting'[c]) =>
                    /\ handleSubmit(c)
                    /\ ~HasBlankField(form[c])
            /\ handleSubmit(c) =>
                    \/ /\ submitting'[c]
                       /\ toast'[c] = toast[c]
                       /\ ~HasBlankField(form[c])
                    \/ /\ ~submitting'[c]
                       /\ toast'[c].type = "error"
                       /\ toast'[c].message = "Please fill all required fields."
                       /\ ~AllNonBlank(form[c])
            /\ (submitting[c] /\ ~submitting'[c]) =>
                    SubmitComplete(c) \/ Initialize(c)
            /\ SubmitComplete(c) =>
                    /\ submitting[c]
                    /\ ~submitting'[c]
                    /\ toast'[c].type = "success"
                    /\ toast'[c].message = "Expense submitted."
                    /\ storage' = Absent]_vars
    /\ \A c \in Ctl : submitting[c] ~> ~submitting[c]
    /\ \A c \in Ctl :
            [](submitting[c] => ENABLED SubmitComplete(c))
    /\ \A c \in Ctl :
            []((status[c] = "mounted" /\ ~submitting[c] /\ FreeIds >= 1)
                    => ENABLED handleSubmit(c))

\* the call of the loaded draft has completed, after an earlier
\* notification and a reload: the controller is idle with the success
\* notification, its record is the draft and the slot is empty
C14_Witness ==
    /\ status[1] = "mounted"
    /\ loads = 2
    /\ ~submitting[1]
    /\ submitTimers[1] = 0
    /\ toast[1].type = "success"
    /\ toast[1].message = "Expense submitted."
    /\ toast[1].id = 2
    /\ form[1] = FilledRecord
    /\ storage = Absent

\* C15: an edit sets the named field to the given text and leaves the
\* other fields, the attachment, the slot, the notification and the phase
\* as they were; an edit is possible in every phase of a mounted
\* controller; the slot changes only in a save or in the completion of a
\* call
C15_UpdateInMemoryOnly ==
    /\ [][\A c \in Ctl : \A k \in Keys : \A v \in Values :
            update(c, k, v) =>
                /\ Get(form'[c], k) = Str(v)
                /\ \A j \in Keys \ {k} : Get(form'[c], j) = Get(form[c], j)
                /\ file' = file
                /\ storage' = storage
                /\ toast' = toast
                /\ submitting' = submitting
                /\ submitTimers' = submitTimers
                /\ status' = status]_vars
    /\ [](\A c \in Ctl : \A k \in Keys : \A v \in Values :
            (status[c] = "mounted" /\ edits < MaxEdits)
                => ENABLED update(c, k, v))
    /\ [][storage' # storage =>
            \E c \in Ctl : handleSave(c) \/ SubmitComplete(c)]_vars

\* the vendor was blanked while the call of the loaded draft is in flight
\* (a submit of a blank vendor is rejected), and the slot still holds the
\* draft
C15_Witness ==
    /\ submitting[1]
    /\ edits = 1
    /\ Get(form[1], "vendor") = Str(<<" ">>)
    /\ \A j \in Keys \ {"vendor"} : Get(form[1], j) = Get(FilledRecord, j)
    /\ storage = Stored(JSONstringify(FilledRecord))
    /\ file[1] = "receipt.png"
    /\ toast[1] = NoToast

\* C16: the step that completes a call leaves the slot empty whatever it
\* held, also a draft that this or another controller saved while the call
\* was in flight, and a controller constructed next starts from the
\* template; a draft that is in the slot was written after the last
\* completion, or no call has completed since the session started
C16_CompletionClearsAnyDraft ==
    /\ [][\A c \in Ctl :
            SubmitComplete(c) =>
                /\ ~storage'.present
                /\ LoadDraft(storage') = initialState
                /\ slotOrigin'.by = "clear"
                /\ (slotOrigin.by = "save" /\ c \in slotOrigin.flight) =>
                        /\ storage.present
                        /\ storage' = Absent
                        /\ c \in slotOrigin'.flight]_vars
    /\ [](storage.present => slotOrigin.by \in {"save", "foreign"})
    /\ [](slotOrigin.by = "clear" => storage = Absent)

\* tab 2 saved an edited record while the call of tab 1 was in flight, and
\* the completion of that call removed it: tab 2 has not submitted since
C16_Witness ==
    /\ ~storage.present
    /\ slotOrigin.by = "clear"
    /\ slotOrigin.flight = {1}
    /\ Get(form[2], "vendor") = Str(<<BACKSLASH, QUOTE>>)
    /\ toast[2].message = "Draft saved locally."
    /\ ~submitting[2]
    /\ form[1] = FilledRecord
    /\ toast[1].message = "Expense submitted."
    /\ ~submitting[1]

====
